---- MODULE Spec2Model ----
(***************************************************************************)
(* State-machine model of the declaration bundler plugin of src/index.ts:  *)
(* the session context (entries, programs, resolved options), the module   *)
(* resolver getModule, and the plugin hooks options, transform, resolveId. *)
(*                                                                         *)
(* A file identity is a record [dir, stem, ext]; ext is the sequence of    *)
(* the dot-separated segments after the stem ("a.d.ts" has <<"d","ts">>),  *)
(* so that the extension patterns and getDeclarationId are computed on the *)
(* name and not looked up.  A text is a record [of, v]: v = "disk" is the  *)
(* content of file `of` on disk, v = "edit" is a content handed to the     *)
(* transform hook that differs from the disk, v = "decl" is the            *)
(* declaration text the compiler emits for `of`.                           *)
(***************************************************************************)
EXTENDS Naturals, Sequences, FiniteSets, TLC

VARIABLES
  entries,          \* ctx.entries: sequence of file identities
  programs,         \* ctx.programs: sequence of compilation units
  respectExternal,  \* ctx.resolvedOptions.respectExternal
  includeExternal,  \* ctx.resolvedOptions.includeExternal
  last,             \* the last hook call: its input, its getModule calls, its result
  probe,            \* one earlier transform call and its result, or NoProbe
  diagnostics,      \* the module-level resolution counters and DTS_DEBUG
  twin              \* a second session that is handed the same requests

vars ==
  <<entries, programs, respectExternal, includeExternal, last, probe,
    diagnostics, twin>>

-----------------------------------------------------------------------------
(* Bounds of the model *)

MaxInputs == 3      \* longest input list handed to the options hook
MaxEntries == 2     \* longest ctx.entries
MaxPrograms == 2    \* longest ctx.programs
MaxCalls == 3       \* getModule calls counted before the last transform starts

-----------------------------------------------------------------------------
(* The files of the session: the disk, the import graph and the compiler  *)

F(dir, stem, ext) == [dir |-> dir, stem |-> stem, ext |-> ext]

NoFile == F("", "", <<>>)

FileA == F("src", "a", <<"ts">>)
FileB == F("src", "b", <<"ts">>)
FileC == F("src", "c", <<"ts">>)
FileH == F("lib", "h", <<"ts">>)
FileHD == F("lib", "h", <<"d", "ts">>)
FileIndexD == F("src", "index", <<"d", "ts">>)
FileData == F("src", "data", <<"json">>)
FilePkgIndex == F("node_modules/pkg", "index", <<"d", "ts">>)
FilePkgOther == F("node_modules/pkg", "other", <<"d", "ts">>)
FileCss == F("src", "style", <<"css">>)

\* a module another plugin of the host provides: named as input and handed
\* to transform, but not on disk
FileGone == F("src", "gone", <<"ts">>)

\* a name the declaration pattern matches and TS_EXTENSIONS does not
FileOdd == F("src", "odd", <<"d", "mtsx">>)

\* ts.sys.fileExists: the files on disk
OnDisk ==
  {FileA, FileB, FileC, FileH, FileHD, FileIndexD, FileData,
   FilePkgIndex, FilePkgOther, FileCss}

fileExists(f) == f \in OnDisk

\* the files a file's import statements resolve to
ImportsOf(f) ==
  CASE f = FileA -> {FileC, FilePkgIndex}
    [] f = FileB -> {FileC}
    [] f = FileIndexD -> {FileC, FileData, FilePkgIndex}
    [] f = FilePkgIndex -> {FilePkgOther}
    [] OTHER -> {}

InNodeModules(f) == f.dir = "node_modules/pkg"

\* directory of the tsconfig that governs a file
ConfigDirOf(f) == IF f.dir = "lib" THEN "lib" ELSE "root"

\* what program.emit reports for a source file
EmitOutcome(f) ==
  CASE f = FileB -> [emitSkipped |-> TRUE, errors |-> TRUE, wrote |-> TRUE]
    [] f = FileC -> [emitSkipped |-> TRUE, errors |-> FALSE, wrote |-> TRUE]
    [] OTHER -> [emitSkipped |-> FALSE, errors |-> FALSE, wrote |-> TRUE]

-----------------------------------------------------------------------------
(* helpers.js: the extension patterns *)

LastSeg(f) == IF f.ext = <<>> THEN "" ELSE f.ext[Len(f.ext)]

TsSegs == {"ts", "tsx", "js", "jsx", "cts", "mts"}

DtsSegs == {"ts", "tsx", "cts", "ctsx", "mts", "mtsx"}

\* TS_EXTENSIONS = /\.([cm]ts|[tj]sx?)$/
TS_EXTENSIONS(f) == LastSeg(f) \in TsSegs

\* DTS_EXTENSIONS = /\.d\.(c|m)?tsx?$/
DTS_EXTENSIONS(f) ==
  /\ Len(f.ext) >= 2
  /\ f.ext[Len(f.ext) - 1] = "d"
  /\ LastSeg(f) \in DtsSegs

\* JSON_EXTENSIONS = /\.json$/
JSON_EXTENSIONS(f) == LastSeg(f) = "json"

\* getDeclarationId: the supported extension replaced by ".d.ts"
getDeclarationId(f) ==
  IF DTS_EXTENSIONS(f)
    THEN [f EXCEPT !.ext = SubSeq(f.ext, 1, Len(f.ext) - 2) \o <<"d", "ts">>]
  ELSE IF TS_EXTENSIONS(f) \/ JSON_EXTENSIONS(f)
    THEN [f EXCEPT !.ext = SubSeq(f.ext, 1, Len(f.ext) - 1) \o <<"d", "ts">>]
  ELSE f

-----------------------------------------------------------------------------
(* Sequences *)

InSeq(x, s) == \E i \in 1..Len(s) : s[i] = x

Range(s) == {s[i] : i \in 1..Len(s)}

RECURSIVE SeqsUpTo(_, _)
\* the sequences over S of length at most n
SeqsUpTo(S, n) ==
  IF n = 0 THEN {<<>>}
  ELSE LET shorter == SeqsUpTo(S, n - 1)
       IN shorter \cup
          UNION {{Append(s, x) : x \in S} : s \in {t \in shorter : Len(t) = n - 1}}

-----------------------------------------------------------------------------
(* program.js and the compiler: compilation units *)

RECURSIVE Reachable(_)
Reachable(S) ==
  LET N == S \cup UNION {ImportsOf(f) : f \in S}
  IN IF N = S THEN S ELSE Reachable(N)

\* ts.createProgram(rootNames): the roots, every file reachable from them,
\* and the members found through node_modules that are no root
MakeProgram(rootNames) ==
  LET members == Reachable(Range(rootNames) \cap OnDisk)
  IN [roots |-> rootNames,
      files |-> members,
      external |-> {f \in members : InNodeModules(f) /\ ~InSeq(f, rootNames)}]

getRootFileNames(p) == p.roots

\* p.getSourceFile(fileName): the file itself when a member, else NoFile
getSourceFile(p, fileName) == IF fileName \in p.files THEN fileName ELSE NoFile

isSourceFileFromExternalLibrary(p, sourceFile) == sourceFile \in p.external

\* createProgram(fileName, ...) of program.js: one unit rooted at one file
createProgram(fileName) == MakeProgram(<<fileName>>)

RECURSIVE GroupInputs(_, _, _)
\* createPrograms: the declaration inputs are skipped, consecutive inputs
\* governed by the same tsconfig directory share one unit
GroupInputs(input, current, acc) ==
  IF input = <<>>
    THEN IF current = <<>> THEN acc ELSE Append(acc, MakeProgram(current))
  ELSE LET main == Head(input)
           rest == Tail(input)
       IN IF DTS_EXTENSIONS(main) THEN GroupInputs(rest, current, acc)
          ELSE IF current = <<>> THEN GroupInputs(rest, <<main>>, acc)
          ELSE IF ConfigDirOf(main) = ConfigDirOf(current[1])
            THEN GroupInputs(rest, Append(current, main), acc)
          ELSE GroupInputs(rest, <<main>>, Append(acc, MakeProgram(current)))

createPrograms(input) == GroupInputs(input, <<>>, <<>>)

-----------------------------------------------------------------------------
(* Texts and resolution records *)

Text(f, v) == [of |-> f, v |-> v]

NoText == Text(NoFile, "none")

\* source.getFullText()
getFullText(sourceFile) == Text(sourceFile, "disk")

\* a ResolvedModule, or null: program is the unit's position in ctx.programs
NullModule == [kind |-> "null", code |-> NoText, source |-> NoFile, program |-> 0]

RawModule(code) == [kind |-> "raw", code |-> code, source |-> NoFile, program |-> 0]

OwnedModule(source, i) ==
  [kind |-> "owned", code |-> getFullText(source), source |-> source, program |-> i]

-----------------------------------------------------------------------------
(* getModule *)

\* programs.find without the entry-point case: any member matches
MatchesProgramAnyMember(p, isEntry, fileName) ==
  LET sourceFile == getSourceFile(p, fileName)
  IN sourceFile # NoFile /\ ~isSourceFileFromExternalLibrary(p, sourceFile)

\* the predicate of programs.find
MatchesProgram(p, isEntry, fileName) ==
  IF isEntry
    THEN InSeq(fileName, getRootFileNames(p))
  ELSE LET sourceFile == getSourceFile(p, fileName)
       IN IF sourceFile # NoFile /\ isSourceFileFromExternalLibrary(p, sourceFile)
            THEN FALSE
          ELSE sourceFile # NoFile

\* programs.find that keeps the last unit that matches
FindLastProgram(ps, isEntry, fileName) ==
  LET hits == {i \in 1..Len(ps) : MatchesProgram(ps[i], isEntry, fileName)}
  IN IF hits = {} THEN 0 ELSE CHOOSE i \in hits : \A j \in hits : i >= j

\* programs.find: the position of the first unit that matches, 0 when none
FindExistingProgram(ps, isEntry, fileName) ==
  LET hits == {i \in 1..Len(ps) : MatchesProgram(ps[i], isEntry, fileName)}
  IN IF hits = {} THEN 0 ELSE CHOOSE i \in hits : \A j \in hits : i <= j

\* programs.some that never finds the file
IsExternalLibraryNever(ps, fileName) == FALSE

\* programs.some that takes every file for an external-library member
IsExternalLibraryAlways(ps, fileName) == TRUE

\* programs.some: a unit holds the file as an external-library member
IsExternalLibrary(ps, fileName) ==
  \E i \in 1..Len(ps) :
    LET sourceFile == getSourceFile(ps[i], fileName)
    IN sourceFile # NoFile /\ isSourceFileFromExternalLibrary(ps[i], sourceFile)

\* a resolver without the zero-program fast path
ZeroProgramFastPathNever(ps, fileName) == FALSE

\* the guard of the zero-program fast path
ZeroProgramFastPath(ps, fileName) == Len(ps) = 0 /\ DTS_EXTENSIONS(fileName)

\* the result of getModule: the record returned, the programs after the
\* call, the branch taken and the file asked for
Resolved(module, ps, branch, fileName) ==
  [module |-> module, programs |-> ps, branch |-> branch, file |-> fileName]

\* lines 147-161 of getModule: the new program, pushed, owns the file
ResolveNew(newPrograms, fileName) ==
  Resolved(OwnedModule(getSourceFile(newPrograms[Len(newPrograms)], fileName),
                       Len(newPrograms)),
           newPrograms, "new", fileName)

\* a resolver that creates the program before it tests that the file exists
ResolveWithEager(ps, fileName, code, existingProgram) ==
  IF existingProgram # 0
    THEN Resolved(OwnedModule(getSourceFile(ps[existingProgram], fileName),
                              existingProgram),
                  ps, "existing", fileName)
  ELSE IF fileExists(fileName)
    THEN IF Len(ps) > 0 /\ DTS_EXTENSIONS(fileName) /\ IsExternalLibrary(ps, fileName)
           THEN Resolved(RawModule(code), ps, "external", fileName)
         ELSE ResolveNew(Append(ps, createProgram(fileName)), fileName)
  ELSE Resolved(NullModule, Append(ps, createProgram(fileName)), "null", fileName)

\* lines 110-169 of getModule, once programs.find has answered
ResolveWith(ps, fileName, code, existingProgram) ==
  IF existingProgram # 0
    THEN Resolved(OwnedModule(getSourceFile(ps[existingProgram], fileName),
                              existingProgram),
                  ps, "existing", fileName)
  ELSE IF fileExists(fileName)
    THEN IF Len(ps) > 0 /\ DTS_EXTENSIONS(fileName) /\ IsExternalLibrary(ps, fileName)
           THEN Resolved(RawModule(code), ps, "external", fileName)
         ELSE ResolveNew(Append(ps, createProgram(fileName)), fileName)
  ELSE Resolved(NullModule, ps, "null", fileName)

\* a resolver for which a file registered twice is no entry point
getModuleSingleEntry(es, ps, fileName, code) ==
  IF ZeroProgramFastPath(ps, fileName)
    THEN Resolved(RawModule(code), ps, "fast", fileName)
  ELSE ResolveWith(ps, fileName, code,
                   FindExistingProgram(
                     ps, Cardinality({i \in 1..Len(es) : es[i] = fileName}) = 1,
                     fileName))

\* lines 77-169 of getModule(ctx, fileName, code): the record it returns and
\* the programs after it
getModule(es, ps, fileName, code) ==
  IF ZeroProgramFastPath(ps, fileName)
    THEN Resolved(RawModule(code), ps, "fast", fileName)
  ELSE ResolveWith(ps, fileName, code,
                   FindExistingProgram(ps, InSeq(fileName, es), fileName))

\* what a getModule call leaves in the record of the last hook call: the
\* file asked for, the branch taken, the record returned, and the number of
\* programs before and after the call
CallRecord(r, ps) ==
  [file |-> r.file, branch |-> r.branch, module |-> r.module,
   before |-> Len(ps), after |-> Len(r.programs)]

-----------------------------------------------------------------------------
(* The resolution diagnostics of lines 37-75 *)

\* the counters of a process that has resolved nothing yet
FreshDiagnostics(debug) ==
  [total |-> 0, count |-> <<>>, processed |-> {}, stack |-> <<>>, debug |-> debug]

\* moduleResolutionCount.get(fileName) || 0
CountOf(d, fileName) ==
  IF fileName \in DOMAIN d.count THEN d.count[fileName] ELSE 0

\* lines 48-75 and the pop before each return: one more call, one more
\* request of the file, the file processed, the stack pushed and popped
Track(d, fileName) ==
  [total |-> d.total + 1,
   count |-> [g \in DOMAIN d.count \cup {fileName} |->
                IF g = fileName THEN CountOf(d, fileName) + 1 ELSE d.count[g]],
   processed |-> d.processed \cup {fileName},
   stack |-> SubSeq(Append(d.stack, fileName), 1, Len(d.stack)),
   debug |-> d.debug]

\* a result together with the diagnostics after it
Tracked(t, d) == [t |-> t, diagnostics |-> d]

\* a resolver that answers NotFound when the file was requested before
getModuleOnce(d, es, ps, fileName, code) ==
  Tracked(IF fileName \in d.processed
            THEN Resolved(NullModule, ps, "null", fileName)
          ELSE getModule(es, ps, fileName, code),
          Track(d, fileName))

\* getModule(ctx, fileName, code) with the counters it updates
getModuleTracked(d, es, ps, fileName, code) ==
  Tracked(getModule(es, ps, fileName, code), Track(d, fileName))

-----------------------------------------------------------------------------
(* plugin.transform *)

SkipOut == [kind |-> "skip", text |-> NoText, key |-> NoFile]

FatalOut == [kind |-> "fatal", text |-> NoText, key |-> NoFile]

\* transformPlugin.transform.call(this, text, key)
ForwardOut(text, key) == [kind |-> "forward", text |-> text, key |-> key]

\* the result of a strategy: what transform returns, the programs after it
\* and the getModule calls it made
Outcome(out, ps, calls) == [out |-> out, programs |-> ps, calls |-> calls]

\* lines 238-242 and 248-252: a module that was found is forwarded under key
ForwardModule(r, key, ps) ==
  Outcome(IF r.module.kind # "null" THEN ForwardOut(r.module.code, key) ELSE SkipOut,
          r.programs, <<CallRecord(r, ps)>>)

\* lines 238-242 and 248-252, with the counters after the getModule call
ForwardTracked(m, key, ps) == Tracked(ForwardModule(m.t, key, ps), m.diagnostics)

\* handleDtsFile
handleDtsFile(d, es, ps, id, code) ==
  ForwardTracked(getModuleTracked(d, es, ps, id, code), id, ps)

\* treatTsAsDts
treatTsAsDts(d, es, ps, id, code) ==
  ForwardTracked(getModuleTracked(d, es, ps, getDeclarationId(id), code),
                 getDeclarationId(id), ps)

\* generateDts that returns what was generated whatever emit reported
EmitResultIgnoringErrors(emitted, generated) == generated

\* lines 274-281 of generateDts: after program.emit returned
EmitResult(emitted, generated) ==
  IF emitted.emitSkipped /\ emitted.errors THEN FatalOut ELSE generated

\* lines 262-273 of generateDts: what the emit callback generated
Generated(emitted, source, declarationId) ==
  IF emitted.wrote THEN ForwardOut(Text(source, "decl"), declarationId) ELSE SkipOut

\* generateDts that only tests the module, not its source and program
EmitModuleUnguarded(r, id, ps) ==
  IF r.module.kind = "null"
    THEN Outcome(SkipOut, r.programs, <<CallRecord(r, ps)>>)
  ELSE Outcome(EmitResult(EmitOutcome(r.module.source),
                          Generated(EmitOutcome(r.module.source), r.module.source,
                                    getDeclarationId(id))),
               r.programs, <<CallRecord(r, ps)>>)

\* lines 257-281 of generateDts, once getModule has answered
EmitModule(r, id, ps) ==
  IF r.module.kind = "null" \/ r.module.source = NoFile \/ r.module.program = 0
    THEN Outcome(SkipOut, r.programs, <<CallRecord(r, ps)>>)
  ELSE Outcome(EmitResult(EmitOutcome(r.module.source),
                          Generated(EmitOutcome(r.module.source), r.module.source,
                                    getDeclarationId(id))),
               r.programs, <<CallRecord(r, ps)>>)

\* lines 257-281 of generateDts, with the counters after the getModule call
EmitTracked(m, id, ps) == Tracked(EmitModule(m.t, id, ps), m.diagnostics)

\* generateDts
generateDts(d, es, ps, id, code) ==
  EmitTracked(getModuleTracked(d, es, ps, id, code), id, ps)

\* line 321: treated ?? generateDts(), after a treatTsAsDts that found nothing
AfterTreated(treated, g) == Outcome(g.out, g.programs, treated.calls \o g.calls)

\* line 321, with the counters after generateDts
AfterTreatedTracked(treated, g) ==
  Tracked(AfterTreated(treated.t, g.t), g.diagnostics)

\* lines 314-325: treatTsAsDts, and generateDts when it found nothing
TreatOrGenerate(es, id, code, treated) ==
  IF treated.t.out.kind # "skip" THEN treated
  ELSE AfterTreatedTracked(
         treated,
         generateDts(treated.diagnostics, es, treated.t.programs, id, code))

\* a transform that tests the declaration pattern before the extensions
StrategyOfDeclarationFirst(id) ==
  IF DTS_EXTENSIONS(id) THEN "dts"
  ELSE IF ~TS_EXTENSIONS(id) /\ ~JSON_EXTENSIONS(id) THEN "skip"
  ELSE IF JSON_EXTENSIONS(id) THEN "json"
  ELSE "source"

\* the strategy transform picks for a file
StrategyOf(id) ==
  IF ~TS_EXTENSIONS(id) /\ ~JSON_EXTENSIONS(id) THEN "skip"
  ELSE IF DTS_EXTENSIONS(id) THEN "dts"
  ELSE IF JSON_EXTENSIONS(id) THEN "json"
  ELSE "source"

\* transform(code, id): the result, the programs after it, the getModule
\* calls it made and the counters after them
transform(d, es, ps, id, code) ==
  CASE StrategyOf(id) = "skip" -> Tracked(Outcome(SkipOut, ps, <<>>), d)
    [] StrategyOf(id) = "dts" -> handleDtsFile(d, es, ps, id, code)
    [] StrategyOf(id) = "json" -> generateDts(d, es, ps, id, code)
    [] OTHER -> TreatOrGenerate(es, id, code, treatTsAsDts(d, es, ps, id, code))

-----------------------------------------------------------------------------
(* plugin.resolveId *)

\* a path handed to path.resolve: written absolute or relative to the cwd
Path(form, f) == [form |-> form, file |-> f]

\* path.resolve(p): the absolute file identity
PathResolve(p) == p.file

NoClass == [kind |-> "none", file |-> NoFile, source |-> ""]

\* ts.resolveModuleName(source, importer, ...).resolvedModule
ResolveModuleName(source, importer) ==
  LET hit(f, ext, pkg) ==
        [resolved |-> TRUE, resolvedFileName |-> Path("abs", f),
         isExternalLibraryImport |-> ext, packageName |-> pkg]
  IN CASE source = "./c" /\ importer = FileA -> hit(FileC, FALSE, "")
       [] source = "pkg" /\ importer = FileA -> hit(FilePkgIndex, TRUE, "pkg")
       [] source = "./other" /\ importer = FilePkgIndex -> hit(FilePkgOther, TRUE, "pkg")
       [] source = "pkg/other" /\ importer = FileB -> hit(FilePkgOther, TRUE, "")
       [] source = "./data.json" /\ importer = FileIndexD -> hit(FileData, FALSE, "")
       [] OTHER -> [resolved |-> FALSE, resolvedFileName |-> Path("abs", NoFile),
                    isExternalLibraryImport |-> FALSE, packageName |-> ""]

\* the import requests the host makes
ImportRequests ==
  {<<"./c", FileA>>, <<"pkg", FileA>>, <<"./other", FilePkgIndex>>,
   <<"pkg/other", FileB>>, <<"./data.json", FileIndexD>>, <<"./missing", FileB>>}

\* the classification with the external marker tried before the inclusion list
classifyExternalFirst(source, importer, respect, include) ==
  LET resolvedModule == ResolveModuleName(source, importer)
  IN IF ~resolvedModule.resolved
       THEN [kind |-> "unresolved", file |-> NoFile, source |-> ""]
     ELSE IF ~respect /\ resolvedModule.isExternalLibraryImport
       THEN [kind |-> "external", file |-> NoFile, source |-> source]
     ELSE [kind |-> "id", file |-> PathResolve(resolvedModule.resolvedFileName),
           source |-> ""]

\* the import requests of the sessions that also transform files
SessionImports == {<<"./c", FileA>>, <<"pkg", FileA>>}

\* resolveId(source, importer) with an importer: the classification
classify(source, importer, respect, include) ==
  LET resolvedModule == ResolveModuleName(source, importer)
  IN IF ~resolvedModule.resolved
       THEN [kind |-> "unresolved", file |-> NoFile, source |-> ""]
     ELSE IF /\ resolvedModule.isExternalLibraryImport
             /\ resolvedModule.packageName # ""
             /\ resolvedModule.packageName \in include
       THEN [kind |-> "id", file |-> PathResolve(resolvedModule.resolvedFileName),
             source |-> ""]
     ELSE IF ~respect /\ resolvedModule.isExternalLibraryImport
       THEN [kind |-> "external", file |-> NoFile, source |-> source]
     ELSE [kind |-> "id", file |-> PathResolve(resolvedModule.resolvedFileName),
           source |-> ""]

-----------------------------------------------------------------------------
(* The session *)

NoProbe == [id |-> NoFile, code |-> NoText, out |-> SkipOut]

\* the record of a hook call: id is the file (the importer for an import),
\* source the import specifier, class the classification returned
LastRecord(op, id, code, out, calls, source, class, before) ==
  [op |-> op, id |-> id, code |-> code, out |-> out, calls |-> calls,
   source |-> source, class |-> class, poolBefore |-> before]

\* the files the host hands to the options hook as input
InputFiles == {FileA}

\* the files the host resolves without an importer
EntryFiles == {FileA, FileB, FileC}

\* the files the host hands to the transform hook
TransformFiles == {FileB, FileC}

\* the contents the host hands to the transform hook for a file: the disk's,
\* and for some files one that an earlier plugin changed
CodesOf(id) ==
  IF id \in {FileIndexD, FilePkgOther} THEN {"disk", "edit"} ELSE {"disk"}

\* the options object's input: a string, an array or an object of names
InputForms == {"string", "array", "object"}

\* lines 184-187 of the options hook: the input as a list of file names
InputValues(form, names) == IF form = "string" THEN <<names[1]>> ELSE names

\* the session after plugin(options): nothing registered, nothing compiled
InitContext ==
  /\ entries = <<>>
  /\ programs = <<>>
  /\ last = LastRecord("none", NoFile, NoText, SkipOut, <<>>, "", NoClass, 0)
  /\ probe = NoProbe

\* the second session before its first request, in a process whose
\* diagnostics are d
NewTwin(d) ==
  [entries |-> <<>>, programs |-> <<>>, diagnostics |-> d,
   out |-> SkipOut, calls |-> <<>>]

\* plugin(): respectExternal and includeExternal at their defaults
Init ==
  /\ InitContext
  /\ respectExternal = FALSE
  /\ includeExternal = {}
  /\ diagnostics = FreshDiagnostics(FALSE)
  /\ twin = NewTwin(FreshDiagnostics(FALSE))

\* plugin(options) with any respectExternal and includeExternal
InitAnyOptions ==
  /\ InitContext
  /\ respectExternal \in BOOLEAN
  /\ includeExternal \in {{}, {"pkg"}}
  /\ diagnostics = FreshDiagnostics(FALSE)
  /\ twin = NewTwin(FreshDiagnostics(FALSE))

\* options(options): the programs of the input files
OptionsStep(form, names) ==
  /\ form = "string" => Len(names) = 1
  /\ programs' = createPrograms(InputValues(form, names))
  /\ last' = LastRecord("options", NoFile, NoText, SkipOut, <<>>, "", NoClass,
                        Len(programs))
  /\ UNCHANGED <<entries, respectExternal, includeExternal, probe>>

\* options(options) of a session without a second one
Options(form, names) ==
  /\ OptionsStep(form, names)
  /\ UNCHANGED <<diagnostics, twin>>

\* resolveId(source, undefined): the entry point is stored
EntryStep(source) ==
  /\ Len(entries) < MaxEntries
  /\ entries' = Append(entries, PathResolve(source))
  /\ last' = LastRecord("entry", PathResolve(source), NoText, SkipOut, <<>>,
                        "", NoClass, Len(programs))
  /\ UNCHANGED <<programs, respectExternal, includeExternal, probe>>

\* resolveId(source, undefined) of a session without a second one
RegisterEntry(source) ==
  /\ EntryStep(source)
  /\ UNCHANGED <<diagnostics, twin>>

\* resolveId(source, importer): the import is classified
ResolveImport(source, importer) ==
  /\ last' = LastRecord("import", importer, NoText, SkipOut, <<>>, source,
                        classify(source, importer, respectExternal, includeExternal),
                        Len(programs))
  /\ UNCHANGED <<entries, programs, respectExternal, includeExternal, probe,
                  diagnostics, twin>>

\* the session after a transform call that returned a
TransformStep(id, code, a) ==
  /\ diagnostics.total < MaxCalls
  /\ Len(a.t.programs) > Len(programs) => Len(a.t.programs) <= MaxPrograms
  /\ programs' = a.t.programs
  /\ diagnostics' = a.diagnostics
  /\ last' = LastRecord("transform", id, code, a.t.out, a.t.calls, "", NoClass,
                        Len(programs))
  /\ UNCHANGED <<entries, respectExternal, includeExternal>>

\* transform(code, id)
Transform(id, v) ==
  /\ TransformStep(id, Text(id, v),
                   transform(diagnostics, entries, programs, id, Text(id, v)))
  /\ UNCHANGED <<probe, twin>>

Next ==
  \/ \E form \in InputForms, names \in SeqsUpTo(InputFiles, MaxInputs) :
       Options(form, names)
  \/ \E form \in {"abs", "rel"}, f \in EntryFiles : RegisterEntry(Path(form, f))
  \/ \E r \in SessionImports : ResolveImport(r[1], r[2])
  \/ \E id \in TransformFiles : \E v \in CodesOf(id) : Transform(id, v)

Spec == Init /\ [][Next]_vars

\* The import classifier under every configuration: the options hook, entry
\* registration and import classification
NextPolicy ==
  \/ \E form \in InputForms, names \in SeqsUpTo(InputFiles, MaxInputs) :
       Options(form, names)
  \/ \E form \in {"abs", "rel"}, f \in EntryFiles : RegisterEntry(Path(form, f))
  \/ \E r \in ImportRequests : ResolveImport(r[1], r[2])

SpecPolicy == InitAnyOptions /\ [][NextPolicy]_vars

\* the input files of a session with a module that is not on disk
VirtualInputs == {FileGone}

\* the entry points of such a session
VirtualEntries == {FileA, FileGone}

\* the files handed to its transform hook
VirtualTransformFiles ==
  {FileA, FileIndexD, FileData, FileCss, FileGone, FileOdd}

\* Sessions in which the host names and transforms modules that are not on
\* disk
NextVirtual ==
  \/ \E form \in InputForms, names \in SeqsUpTo(VirtualInputs, MaxInputs) :
       Options(form, names)
  \/ \E form \in {"abs", "rel"}, f \in VirtualEntries : RegisterEntry(Path(form, f))
  \/ \E id \in VirtualTransformFiles : \E v \in CodesOf(id) : Transform(id, v)

SpecVirtual == Init /\ [][NextVirtual]_vars

\* the input files of a session with two tsconfig.json files
ConfigInputs == {FileA, FileH}

\* Sessions whose inputs are governed by different tsconfig.json files
NextConfigs ==
  \/ \E form \in InputForms, names \in SeqsUpTo(ConfigInputs, MaxInputs) :
       Options(form, names)
  \/ \E form \in {"abs", "rel"}, f \in EntryFiles : RegisterEntry(Path(form, f))
  \/ \E id \in TransformFiles : \E v \in CodesOf(id) : Transform(id, v)

SpecConfigs == Init /\ [][NextConfigs]_vars

\* the input file of a session whose entry points import the same file
SharedInputs == {FileA}

\* the entry points of such a session: two source files and a declaration
SharedEntries == {FileA, FileB, FileIndexD}

\* the files handed to its transform hook
SharedTransformFiles == {FileB, FileC, FileIndexD}

\* Sessions whose entry points import the same file
NextShared ==
  \/ \E form \in InputForms, names \in SeqsUpTo(SharedInputs, MaxInputs) :
       Options(form, names)
  \/ \E form \in {"abs", "rel"}, f \in SharedEntries : RegisterEntry(Path(form, f))
  \/ \E id \in SharedTransformFiles : \E v \in CodesOf(id) : Transform(id, v)

SpecShared == Init /\ [][NextShared]_vars

\* the input files of a session with declaration files and a package
FastPathInputs == {FileA, FileIndexD}

\* the entry points of such a session
FastPathEntries == {FileIndexD, FilePkgIndex}

\* the files handed to its transform hook
FastPathTransformFiles ==
  {FileA, FileIndexD, FileData, FilePkgIndex, FilePkgOther}

\* Sessions whose inputs and entry points include declaration files, and
\* whose transforms reach the files of a package
NextFastPaths ==
  \/ \E form \in InputForms, names \in SeqsUpTo(FastPathInputs, MaxInputs) :
       Options(form, names)
  \/ \E form \in {"abs", "rel"}, f \in FastPathEntries : RegisterEntry(Path(form, f))
  \/ \E id \in FastPathTransformFiles : \E v \in CodesOf(id) : Transform(id, v)

SpecFastPaths == Init /\ [][NextFastPaths]_vars

\* the observer keeps the first call it chooses to keep, and its result
KeepProbe(id, code, out) ==
  \/ probe' = probe
  \/ probe = NoProbe /\ probe' = [id |-> id, code |-> code, out |-> out]

\* transform(code, id), where the observer may keep the call and its result
TransformProbed(id, v) ==
  /\ TransformStep(id, Text(id, v),
                   transform(diagnostics, entries, programs, id, Text(id, v)))
  /\ KeepProbe(id, Text(id, v), last'.out)
  /\ UNCHANGED twin

\* Repeated transform requests of one session, one of them kept for comparison
NextRepeat ==
  \/ \E form \in InputForms, names \in SeqsUpTo(FastPathInputs, MaxInputs) :
       Options(form, names)
  \/ \E id \in FastPathTransformFiles : \E v \in CodesOf(id) :
       TransformProbed(id, v)

SpecRepeat == Init /\ [][NextRepeat]_vars

\* the second session after a transform call that returned b
TwinAfter(b) ==
  [entries |-> twin.entries, programs |-> b.t.programs,
   diagnostics |-> b.diagnostics, out |-> b.t.out, calls |-> b.t.calls]

\* options(options) in both sessions
OptionsBoth(form, names) ==
  /\ OptionsStep(form, names)
  /\ twin' = [twin EXCEPT !.programs = createPrograms(InputValues(form, names))]
  /\ UNCHANGED diagnostics

\* resolveId(source, undefined) in both sessions
RegisterBoth(source) ==
  /\ EntryStep(source)
  /\ twin' = [twin EXCEPT !.entries = Append(@, PathResolve(source))]
  /\ UNCHANGED diagnostics

\* resolveId(source, undefined), which the host of the second session calls
\* once for each file
RegisterOnce(source) ==
  /\ EntryStep(source)
  /\ twin' = [twin EXCEPT !.entries = IF InSeq(PathResolve(source), @) THEN @
                                      ELSE Append(@, PathResolve(source))]
  /\ UNCHANGED diagnostics

\* both sessions after a transform call that returned a in the first and b
\* in the second
TransformBothStep(id, code, a, b) ==
  /\ TransformStep(id, code, a)
  /\ twin' = TwinAfter(b)
  /\ UNCHANGED probe

\* transform(code, id) in both sessions
TransformBoth(id, v) ==
  TransformBothStep(
    id, Text(id, v),
    transform(diagnostics, entries, programs, id, Text(id, v)),
    transform(twin.diagnostics, twin.entries, twin.programs, id, Text(id, v)))

\* the diagnostics of a process in which an earlier session transformed a.ts
UsedDiagnostics(debug) ==
  Track(Track(FreshDiagnostics(debug), getDeclarationId(FileA)), FileA)

\* two sessions that differ in the diagnostics only
InitDiagnostics ==
  /\ InitContext
  /\ respectExternal = FALSE
  /\ includeExternal = {}
  /\ diagnostics = FreshDiagnostics(FALSE)
  /\ twin \in {NewTwin(FreshDiagnostics(TRUE)), NewTwin(UsedDiagnostics(FALSE)),
               NewTwin(UsedDiagnostics(TRUE))}

\* the input files, entry points and transformed files of these sessions
DiagnosticsInputs == {FileA}

DiagnosticsEntries == {FileC}

DiagnosticsTransformFiles == {FileA, FileC, FileData, FilePkgOther}

NextDiagnostics ==
  \/ \E form \in InputForms, names \in SeqsUpTo(DiagnosticsInputs, MaxInputs) :
       OptionsBoth(form, names)
  \/ \E form \in {"abs", "rel"}, f \in DiagnosticsEntries :
       RegisterBoth(Path(form, f))
  \/ \E id \in DiagnosticsTransformFiles : \E v \in CodesOf(id) :
       TransformBoth(id, v)

SpecDiagnostics == InitDiagnostics /\ [][NextDiagnostics]_vars

\* the files the hosts of these sessions resolve without an importer
DuplicateEntries == {FileA, FileC}

\* two sessions that differ in how often an entry point is registered
NextDuplicates ==
  \/ \E form \in InputForms, names \in SeqsUpTo(InputFiles, MaxInputs) :
       OptionsBoth(form, names)
  \/ \E form \in {"abs", "rel"}, f \in DuplicateEntries :
       RegisterOnce(Path(form, f))
  \/ \E id \in TransformFiles : \E v \in CodesOf(id) : TransformBoth(id, v)

SpecDuplicates == Init /\ [][NextDuplicates]_vars

-----------------------------------------------------------------------------
(* Properties *)

IsTransform == last.op = "transform"

CallIndexes == 1..Len(last.calls)

\* the units that were in the pool when a recorded call was made
PoolBefore(call) == 1..call.before

C2_EntryRootPrecedence ==
  IsTransform =>
    \A k \in CallIndexes :
      LET call == last.calls[k]
      IN (InSeq(call.file, entries) /\ call.module.kind = "owned")
           => InSeq(call.file, getRootFileNames(programs[call.module.program]))

\* an entry point that an earlier unit holds as a non-root member is served
\* by a later unit rooted at it
C2_Witness ==
  /\ IsTransform
  /\ \E k \in CallIndexes :
       LET call == last.calls[k]
       IN /\ InSeq(call.file, entries)
          /\ call.module.kind = "owned"
          /\ \E j \in 1..(call.module.program - 1) :
               /\ call.file \in programs[j].files \ programs[j].external
               /\ ~InSeq(call.file, getRootFileNames(programs[j]))

\* C3 (external fast path): resolving a declaration file that a unit of the
\* pool holds as an external-library member leaves the pool as long as it
\* was, and returns the raw text without a unit or a unit that holds the
\* file as a member of its own.
C3_ExternalNoGrowth ==
  IsTransform =>
    \A k \in CallIndexes :
      LET call == last.calls[k]
      IN (/\ DTS_EXTENSIONS(call.file)
          /\ \E i \in PoolBefore(call) : call.file \in programs[i].external)
           => /\ call.after = call.before
              /\ \/ /\ call.module.kind = "raw"
                    /\ call.module.code = last.code
                    /\ call.module.program = 0
                 \/ /\ call.module.kind = "owned"
                    /\ call.module.program \in PoolBefore(call)
                    /\ call.file \in programs[call.module.program].files
                                       \ programs[call.module.program].external

\* a declaration file of an external package is returned raw while the pool
\* holds a unit
C3_Witness ==
  /\ IsTransform
  /\ \E k \in CallIndexes :
       LET call == last.calls[k]
       IN /\ DTS_EXTENSIONS(call.file)
          /\ call.branch = "external"
          /\ call.before > 0
          /\ \E i \in PoolBefore(call) : call.file \in programs[i].external

\* C4 (idempotent transform): a transform request for the file and text of
\* an earlier request of the session returns what that request returned.
C4_IdempotentTransform ==
  (IsTransform /\ probe # NoProbe /\ probe.id = last.id /\ probe.code = last.code)
    => last.out = probe.out

\* a source file without a declaration file beside it
SourceWithoutDeclaration(id) ==
  StrategyOf(id) = "source" /\ ~fileExists(getDeclarationId(id))

\* C5 (fallback ordering): for a source file without a declaration file, in
\* every session state, the derived declaration identity resolves to
\* NotFound and then the file's own identity is resolved for generation.
C5_FallbackOrdering ==
  (IsTransform /\ SourceWithoutDeclaration(last.id))
    => /\ Len(last.calls) = 2
       /\ last.calls[1].file = getDeclarationId(last.id)
       /\ last.calls[1].module.kind = "null"
       /\ last.calls[2].file = last.id

\* the pool is empty and every registered entry point is a declaration file
AllDeclarationSession ==
  /\ programs = <<>>
  /\ entries # <<>>
  /\ \A i \in 1..Len(entries) : DTS_EXTENSIONS(entries[i])

\* C6 as stated (all-declaration session): the pool of a session whose
\* entry points are declaration files stays empty whatever is transformed.
C6_PoolStaysEmpty ==
  [][(AllDeclarationSession /\ last'.op = "transform") => programs' = <<>>]_vars

\* C6 as amended: in a session whose entry points are declaration files and
\* whose pool is empty, a transform of a declaration file returns the raw
\* text with no unit, a transform of a declaration or source file leaves the
\* pool empty, and a transform of a JSON file creates a unit.
C6_EmptyUntilJson ==
  [][(AllDeclarationSession /\ last'.op = "transform")
       => /\ ~JSON_EXTENSIONS(last'.id) => programs' = <<>>
          /\ JSON_EXTENSIONS(last'.id) => Len(programs') = 1
          /\ DTS_EXTENSIONS(last'.id)
               => /\ last'.out = ForwardOut(last'.code, last'.id)
                  /\ Len(last'.calls) = 1
                  /\ last'.calls[1].module = RawModule(last'.code)]_vars

\* with a declaration entry point and an empty pool, a source file has been
\* transformed and the pool is still empty
C6_Witness ==
  /\ AllDeclarationSession
  /\ IsTransform
  /\ StrategyOf(last.id) = "source"
  /\ last.out.kind = "forward"

\* the transform ran generateDts and its getModule call returned a unit
HasEmit ==
  /\ IsTransform
  /\ StrategyOf(last.id) \in {"json", "source"}
  /\ last.calls # <<>>
  /\ last.calls[Len(last.calls)].file = last.id
  /\ last.calls[Len(last.calls)].module.kind = "owned"

\* what program.emit reported to the last transform
LastEmit == EmitOutcome(last.calls[Len(last.calls)].module.source)

\* C7 as stated (compilation errors are fatal): a transform whose emit was
\* skipped ends in the fatal error.
C7_SkippedIsFatal == (HasEmit /\ LastEmit.emitSkipped) => last.out = FatalOut

\* C7 as amended: a transform whose emit was skipped with a diagnostic of
\* the error category ends in the fatal error and returns no text; one whose
\* emit was skipped without such a diagnostic returns normally.
C7_ErrorsAreFatal ==
  HasEmit =>
    /\ (LastEmit.emitSkipped /\ LastEmit.errors) => last.out = FatalOut
    /\ ~(LastEmit.emitSkipped /\ LastEmit.errors) => last.out.kind # "fatal"

\* an emit was skipped with an error diagnostic
C7_Witness == HasEmit /\ LastEmit.emitSkipped /\ LastEmit.errors

\* the units of the pool before a call that hold the file as a member of
\* their own
OwnMemberUnits(call) ==
  {i \in PoolBefore(call) : call.file \in programs[i].files \ programs[i].external}

\* the first part of C8: a file that is no entry point and is a non-external
\* member of units of the pool is served by the earliest of them, and no
\* unit is created
FirstMatchingUnitWins ==
  IsTransform =>
    \A k \in CallIndexes :
      LET call == last.calls[k]
      IN (~InSeq(call.file, entries) /\ OwnMemberUnits(call) # {})
           => /\ call.module.kind = "owned"
              /\ call.module.program \in OwnMemberUnits(call)
              /\ \A i \in OwnMemberUnits(call) : call.module.program <= i
              /\ call.after = call.before

C9_ClassificationPolicy ==
  last.op = "import" =>
    LET m == ResolveModuleName(last.source, last.id)
        included == m.isExternalLibraryImport /\ m.packageName \in includeExternal
        resolvedId == [kind |-> "id", file |-> m.resolvedFileName.file, source |-> ""]
    IN /\ ~m.resolved => last.class.kind = "unresolved"
       /\ (m.resolved /\ included) => last.class = resolvedId
       /\ (m.resolved /\ ~included /\ ~respectExternal /\ m.isExternalLibraryImport)
            => last.class = [kind |-> "external", file |-> NoFile,
                             source |-> last.source]
       /\ (m.resolved /\ ~included
             /\ ~(~respectExternal /\ m.isExternalLibraryImport))
            => last.class = resolvedId
       /\ respectExternal => last.class.kind # "external"

\* an external package of the inclusion list is imported while
\* respectExternal is off
C9_Witness ==
  /\ last.op = "import"
  /\ ~respectExternal
  /\ ResolveModuleName(last.source, last.id).isExternalLibraryImport
  /\ ResolveModuleName(last.source, last.id).packageName \in includeExternal
  /\ last.class.kind = "id"

\* C10 (NotFound): a resolution returns NotFound exactly when the file is
\* not on disk and no unit of the pool holds it.
C10_NotFoundExactly ==
  IsTransform =>
    \A k \in CallIndexes :
      LET call == last.calls[k]
      IN call.module.kind = "null"
           <=> /\ ~fileExists(call.file)
               /\ \A i \in PoolBefore(call) : call.file \notin programs[i].files

\* C11 (pool monotonicity): every step of a session keeps every unit of the
\* pool at its position; the pool is only ever extended at its end.
C11_PoolOnlyGrows ==
  [][/\ Len(programs') >= Len(programs)
     /\ \A i \in 1..Len(programs) : programs'[i] = programs[i]]_vars

\* C12 (two-phase lifecycle): once a transform has resolved a file against
\* the pool, no step adds an entry point, and no transform changes the
\* entry-point sequence.
C12_RegistrationPrecedesResolution ==
  [][/\ (IsTransform /\ last.calls # <<>>) => entries' = entries
     /\ last'.op = "transform" => entries' = entries]_vars

C14_RawOnlyWhenEmpty ==
  IsTransform =>
    \A k \in CallIndexes :
      LET call == last.calls[k]
      IN /\ call.module.kind = "raw" => call.before = 0
         /\ (call.before > 0 /\ call.module.kind # "null")
              => call.module.program # 0

\* C14 as amended: a raw record is the request's text for a declaration
\* file, returned while the pool is empty, or while some unit of the pool
\* holds the file, which is on disk, as an external-library member and no
\* unit matches it; every other result than NotFound carries a unit of the
\* pool.
C14_RawOnlyFromFastPaths ==
  IsTransform =>
    \A k \in CallIndexes :
      LET call == last.calls[k]
      IN /\ call.module.kind = "raw"
              => /\ DTS_EXTENSIONS(call.file)
                 /\ call.module.code = last.code
                 /\ call.module.program = 0
                 /\ \/ call.before = 0
                    \/ /\ fileExists(call.file)
                       /\ \E i \in PoolBefore(call) :
                            call.file \in programs[i].external
                       /\ \A i \in PoolBefore(call) :
                            ~MatchesProgram(programs[i], InSeq(call.file, entries),
                                            call.file)
         /\ call.module.kind \notin {"null", "raw"}
              => call.module.program \in 1..call.after

\* with a unit in the pool, a transform forwarded the request's text of a
\* file whose resolution returned a raw record
C14_Witness ==
  /\ IsTransform
  /\ last.out.kind = "forward"
  /\ last.out.text = last.code
  /\ \E k \in CallIndexes :
       /\ last.calls[k].module.kind = "raw"
       /\ last.calls[k].before > 0

\* the file has none of the extensions transform recognises
Unrecognised(id) == ~TS_EXTENSIONS(id) /\ ~JSON_EXTENSIONS(id)

\* C15 (strategy selection): a transform of a file with an unrecognised
\* extension returns "no transformation", resolves nothing and leaves the
\* pool and the entry points as they were; otherwise a file of the
\* declaration pattern is resolved once under its own name and forwarded
\* under it; otherwise a JSON file is resolved once under its own name and
\* only emitted text is forwarded; otherwise the derived declaration name is
\* resolved first, and the file's own name only after that found nothing.
C15_StrategyPriority ==
  [][last'.op = "transform" =>
       LET id == last'.id
           calls == last'.calls
           out == last'.out
       IN /\ entries' = entries
          /\ Unrecognised(id)
               => /\ out = SkipOut
                  /\ calls = <<>>
                  /\ programs' = programs
          /\ (~Unrecognised(id) /\ DTS_EXTENSIONS(id))
               => /\ Len(calls) = 1
                  /\ calls[1].file = id
                  /\ out = IF calls[1].module.kind = "null" THEN SkipOut
                           ELSE ForwardOut(calls[1].module.code, id)
          /\ (~Unrecognised(id) /\ ~DTS_EXTENSIONS(id) /\ JSON_EXTENSIONS(id))
               => /\ Len(calls) = 1
                  /\ calls[1].file = id
                  /\ out.kind = "forward"
                       => out = ForwardOut(Text(id, "decl"), getDeclarationId(id))
          /\ (~Unrecognised(id) /\ ~DTS_EXTENSIONS(id) /\ ~JSON_EXTENSIONS(id))
               => /\ Len(calls) \in {1, 2}
                  /\ calls[1].file = getDeclarationId(id)
                  /\ Len(calls) = 1
                       => out = ForwardOut(calls[1].module.code, getDeclarationId(id))
                  /\ Len(calls) = 2
                       => /\ calls[1].module.kind = "null"
                          /\ calls[2].file = id
                          /\ out.kind = "forward"
                               => out = ForwardOut(Text(id, "decl"),
                                                   getDeclarationId(id))]_vars

\* in a session with units and entry points, a file that the declaration
\* pattern matches and the recognised extensions do not was skipped
C15_Witness ==
  /\ IsTransform
  /\ DTS_EXTENSIONS(last.id)
  /\ Unrecognised(last.id)
  /\ last.out = SkipOut
  /\ programs # <<>>
  /\ entries # <<>>

\* the last transform ran generateDts: for a JSON file, or for a source file
\* after treatTsAsDts found nothing
RanGenerate ==
  /\ IsTransform
  /\ ~Unrecognised(last.id)
  /\ ~DTS_EXTENSIONS(last.id)
  /\ JSON_EXTENSIONS(last.id) \/ Len(last.calls) = 2

\* the record generateDts got from its resolution
GenerateModule == last.calls[Len(last.calls)].module

\* C16 (generation needs a real unit): generateDts returns "no
\* transformation" when its record is NotFound or lacks the unit or the file
\* handle; otherwise it ends in the fatal error or forwards the text emitted
\* for the file; what it forwards is keyed by the derived declaration name,
\* never by the file's own, and is never the text of the request.
C16_GenerateNeedsUnit ==
  RanGenerate =>
    /\ last.calls[Len(last.calls)].file = last.id
    /\ (\/ GenerateModule.kind = "null"
        \/ GenerateModule.source = NoFile
        \/ GenerateModule.program = 0) => last.out = SkipOut
    /\ (/\ GenerateModule.kind # "null"
        /\ GenerateModule.source # NoFile
        /\ GenerateModule.program # 0)
         => last.out \in {FatalOut,
                          ForwardOut(Text(GenerateModule.source, "decl"),
                                     getDeclarationId(last.id))}
    /\ last.out.kind = "forward"
         => /\ last.out.key = getDeclarationId(last.id)
            /\ last.out.key # last.id
            /\ last.out.text # last.code
            /\ last.out.text = Text(last.id, "decl")

\* generateDts got a record with a unit and no file handle and returned
\* "no transformation"
C16_Witness ==
  /\ RanGenerate
  /\ GenerateModule.program # 0
  /\ GenerateModule.source = NoFile
  /\ last.out = SkipOut

\* C18 (bounded pool growth): a resolution adds at most one unit, and only
\* when the file is on disk, no fast path applies and no unit matches: the
\* unit is rooted at the file alone and is the one returned; a resolution
\* that returns a raw record, NotFound or a unit that was in the pool adds
\* none.  A transform adds at most one unit, a treatTsAsDts that found
\* nothing adds none, and entry registration and import classification
\* leave the pool as it was.
C18_AtMostOneUnit ==
  [][/\ last'.op \in {"entry", "import"} => programs' = programs
     /\ last'.op = "transform" =>
          LET calls == last'.calls
          IN /\ Len(programs') <= Len(programs) + 1
             /\ calls = <<>> => programs' = programs
             /\ calls # <<>> => /\ calls[1].before = Len(programs)
                                /\ calls[Len(calls)].after = Len(programs')
             /\ Len(calls) = 2 => /\ calls[1].after = calls[1].before
                                  /\ calls[2].before = calls[1].after
             /\ \A k \in 1..Len(calls) :
                  LET call == calls[k]
                  IN /\ call.after \in {call.before, call.before + 1}
                     /\ call.after = call.before + 1
                          <=> /\ fileExists(call.file)
                              /\ ~(call.before = 0 /\ DTS_EXTENSIONS(call.file))
                              /\ \A i \in 1..call.before :
                                   ~MatchesProgram(programs'[i],
                                                   InSeq(call.file, entries),
                                                   call.file)
                              /\ ~(/\ DTS_EXTENSIONS(call.file)
                                    /\ \E i \in 1..call.before :
                                         call.file \in programs'[i].external)
                     /\ call.after = call.before + 1
                          => /\ call.module.kind = "owned"
                             /\ call.module.program = call.after
                             /\ getRootFileNames(programs'[call.after])
                                  = <<call.file>>
                     /\ (\/ call.module.kind \in {"raw", "null"}
                         \/ call.module.program \in 1..call.before)
                          => call.after = call.before]_vars

\* a transform of a source file resolved twice and added one unit to a pool
\* that held one: the declaration name was not found, the file's own name
\* got a new unit
C18_Witness ==
  /\ IsTransform
  /\ last.poolBefore >= 1
  /\ Len(last.calls) = 2
  /\ last.calls[1].module.kind = "null"
  /\ last.calls[2].after = last.calls[2].before + 1
  /\ Len(programs) = last.poolBefore + 1

\* C17 (diagnostics non-interference): two sessions that are handed the same
\* requests and differ in the diagnostics (the counters, the processed
\* files, the debug toggle) have the same pool, and their transforms make
\* the same resolutions with the same results and return the same.
C17_DiagnosticsDoNotInterfere ==
  /\ twin.programs = programs
  /\ twin.entries = entries
  /\ IsTransform => /\ twin.out = last.out
                    /\ twin.calls = last.calls

\* the sessions differ in the debug toggle and the counters, and the last
\* transform got a unit for a file that was requested before
C17_Witness ==
  /\ IsTransform
  /\ twin.diagnostics.debug # diagnostics.debug
  /\ twin.diagnostics.total > diagnostics.total
  /\ \E k \in CallIndexes :
       /\ CountOf(diagnostics, last.calls[k].file) >= 2
       /\ last.calls[k].module.kind = "owned"

\* how often a file was registered as entry point
Registrations(f) == Cardinality({i \in 1..Len(entries) : entries[i] = f})

\* C19 (duplicate registration): registering an entry point appends its
\* resolved path, classifies nothing and leaves the pool; and a session in
\* which files are registered repeatedly has the same pool, and the same
\* resolutions and transform results, as the session that registers each
\* file once; no resolution creates a unit for a file that roots a unit of
\* the pool.
C19_DuplicateEntriesHarmless ==
  /\ last.op = "entry" => /\ entries # <<>>
                          /\ entries[Len(entries)] = last.id
                          /\ last.class = NoClass
                          /\ Len(programs) = last.poolBefore
  /\ Range(twin.entries) = Range(entries)
  /\ \A i, j \in 1..Len(twin.entries) : twin.entries[i] = twin.entries[j] => i = j
  /\ twin.programs = programs
  /\ IsTransform => /\ twin.out = last.out
                    /\ twin.calls = last.calls
                    /\ \A k \in CallIndexes :
                         last.calls[k].branch = "new"
                           => \A i \in PoolBefore(last.calls[k]) :
                                ~InSeq(last.calls[k].file,
                                       getRootFileNames(programs[i]))

\* a file registered twice is resolved again and served by the unit its
\* first resolution created
C19_Witness ==
  /\ IsTransform
  /\ \E k \in CallIndexes :
       LET call == last.calls[k]
       IN /\ Registrations(call.file) >= 2
          /\ call.file \notin InputFiles
          /\ call.branch = "existing"
          /\ getRootFileNames(programs[call.module.program]) = <<call.file>>

====
